---- MODULE Spec2Model ----
(***************************************************************************)
(* MODIS HDF to GeoTIFF converter (scripts/converter.py, scripts/skill.py) *)
(* as a state machine.  Python strings are TLA+ strings, Python None is    *)
(* the empty tuple and a value v that may be None is the 1-tuple <<v>>.    *)
(* Floating point values are exact rationals [n, d] in lowest terms.       *)
(***************************************************************************)
EXTENDS Integers, Sequences, FiniteSets, TLC

(***************************************************************************)
(* Bounds of the model.                                                    *)
(***************************************************************************)
MaxCoord == 1
MaxDim == 2

(***************************************************************************)
(* Python values.                                                          *)
(***************************************************************************)
None == <<>>
Some(v) == <<v>>
Val(o) == o[1]

Ch(s, i) == SubSeq(s, i, i)

\* Python `sub in s` for strings
Contains(s, sub) ==
    \E i \in 1..(Len(s) - Len(sub) + 1) : SubSeq(s, i, i + Len(sub) - 1) = sub

Abs(x) == IF x < 0 THEN -x ELSE x

\* index of the first occurrence of the character c in s, 0 when absent
Find(s, c) ==
    IF \E i \in 1..Len(s) : Ch(s, i) = c
    THEN CHOOSE i \in 1..Len(s) : Ch(s, i) = c /\ \A j \in 1..(i - 1) : Ch(s, j) # c
    ELSE 0

\* str.split(sep) for a one-character separator
RECURSIVE Split(_, _)
Split(s, sep) ==
    IF Find(s, sep) = 0 THEN <<s>>
    ELSE <<SubSeq(s, 1, Find(s, sep) - 1)>>
           \o Split(SubSeq(s, Find(s, sep) + 1, Len(s)), sep)

\* str.replace(a, b) for one-character a
RECURSIVE Replace(_, _, _)
Replace(s, a, b) ==
    IF s = "" THEN ""
    ELSE (IF Ch(s, 1) = a THEN b ELSE Ch(s, 1)) \o Replace(Tail(s), a, b)

UpperChars == "ABCDEFGHIJKLMNOPQRSTUVWXYZ"
LowerChars == "abcdefghijklmnopqrstuvwxyz"
LowerCh(c) == IF Find(UpperChars, c) = 0 THEN c ELSE Ch(LowerChars, Find(UpperChars, c))

\* str.lower()
RECURSIVE Lower(_)
Lower(s) == IF s = "" THEN "" ELSE LowerCh(Ch(s, 1)) \o Lower(Tail(s))

DigitChars == "0123456789"
IsDigits(s) == Len(s) > 0 /\ \A i \in 1..Len(s) : Find(DigitChars, Ch(s, i)) # 0

\* int(s) of a string of digits
RECURSIVE ToInt(_)
ToInt(s) ==
    IF s = "" THEN 0
    ELSE 10 * ToInt(SubSeq(s, 1, Len(s) - 1)) + (Find(DigitChars, Ch(s, Len(s))) - 1)

\* the decimal digits of n, zero-padded to at least w characters
RECURSIVE Pad(_, _)
Pad(n, w) ==
    IF n < 10 /\ w <= 1 THEN Ch(DigitChars, n + 1)
    ELSE Pad(n \div 10, w - 1) \o Ch(DigitChars, (n % 10) + 1)

(***************************************************************************)
(* datetime(year, 1, 1) + timedelta(days=doy-1) and strftime('%Y%m%d')     *)
(***************************************************************************)
IsLeap(y) == (y % 4 = 0 /\ y % 100 # 0) \/ y % 400 = 0
DaysInYear(y) == IF IsLeap(y) THEN 366 ELSE 365
DaysInMonth(y, m) ==
    IF m = 2 THEN (IF IsLeap(y) THEN 29 ELSE 28)
    ELSE IF m \in {4, 6, 9, 11} THEN 30 ELSE 31

MinYear == 1
MaxYear == 9999

\* the (year, day of year) that is day number doy counted from Jan 1 of y
RECURSIVE NormYear(_, _)
NormYear(y, doy) ==
    IF y < MinYear \/ y > MaxYear THEN <<y, doy>>
    ELSE IF doy < 1 THEN NormYear(y - 1, doy + DaysInYear(y - 1))
    ELSE IF doy > DaysInYear(y) THEN NormYear(y + 1, doy - DaysInYear(y))
    ELSE <<y, doy>>

RECURSIVE MonthDay(_, _, _)
MonthDay(y, m, d) ==
    IF d <= DaysInMonth(y, m) THEN <<m, d>>
    ELSE MonthDay(y, m + 1, d - DaysInMonth(y, m))

(***************************************************************************)
(* parse_modis_date, lines 21-47                                           *)
(***************************************************************************)
parse_modis_date(filename) ==
    LET parts == Split(filename, ".")
    IN IF Len(parts) < 2 THEN None
       ELSE LET date_part == parts[2]
            IN IF Len(date_part) # 8 \/ Ch(date_part, 1) # "A" THEN None
               ELSE IF ~IsDigits(SubSeq(date_part, 2, 5))
                       \/ ~IsDigits(SubSeq(date_part, 6, 8)) THEN None
               ELSE LET year == ToInt(SubSeq(date_part, 2, 5))
                        doy == ToInt(SubSeq(date_part, 6, 8))
                        yd == NormYear(year, doy)
                    IN IF year < MinYear \/ yd[1] < MinYear \/ yd[1] > MaxYear
                       THEN None
                       ELSE LET md == MonthDay(yd[1], 1, yd[2])
                            IN Some(Pad(yd[1], 4) \o Pad(md[1], 2) \o Pad(md[2], 2))

RECURSIVE Gcd(_, _)
Gcd(a, b) == IF b = 0 THEN a ELSE Gcd(b, a % b)

\* the float n/d, d # 0
Rat(n, d) ==
    LET g == Gcd(Abs(n), Abs(d))
        s == IF d < 0 THEN -1 ELSE 1
    IN [n |-> (s * n) \div g, d |-> Abs(d) \div g]
RatAbs(r) == [n |-> Abs(r.n), d |-> r.d]
RatNeg(r) == [n |-> -r.n, d |-> r.d]
Zero == Rat(0, 1)

(***************************************************************************)
(* The StructMetadata.0 text: a sequence of KEY=VALUE lines.  A value      *)
(* token is a number or a non-numeric word.                                *)
(***************************************************************************)
Coords == -MaxCoord..MaxCoord
Dims == 0..MaxDim
Word == [num |-> FALSE, v |-> 0]
Num(v) == [num |-> TRUE, v |-> v]
CoordToks == {Num(v) : v \in Coords} \cup {Word}
PointLine(key, a, b) == [key |-> key, a |-> a, b |-> b]
DimLine(key, a) == [key |-> key, a |-> a, b |-> Word]

PointOpts(key) ==
    {<<>>} \cup {<<PointLine(key, a, b)>> : a \in CoordToks, b \in CoordToks}
XDimOpts ==
    {<<>>, <<DimLine("XDim", Word)>>}
      \cup {<<DimLine("XDim", Num(v))>> : v \in Dims}
      \cup {<<DimLine("XDim", Word), DimLine("XDim", Num(v))>> : v \in Dims}
YDimOpts ==
    {<<>>, <<DimLine("YDim", Word)>>}
      \cup {<<DimLine("YDim", Num(v))>> : v \in Dims}
MetaTexts ==
    {ul \o lr \o xd \o yd : ul \in PointOpts("UpperLeftPointMtrs"),
                            lr \in PointOpts("LowerRightMtrs"),
                            xd \in XDimOpts, yd \in YDimOpts}

GoodText == <<PointLine("UpperLeftPointMtrs", Num(-1), Num(1)),
              PointLine("LowerRightMtrs", Num(1), Num(-1)),
              DimLine("XDim", Num(2)), DimLine("YDim", Num(2))>>

SinusoidalWkt == "PROJCS[unnamed,PROJECTION[Sinusoidal]]"

VARIABLES
    mode,             \* the function the run entered
    archives,         \* the input files
    request,          \* the datasets argument of hdf_to_geotiff_sinusoidal
    fs,               \* the files of the output directory, by name
    sd,               \* the SD handles opened so far, in order
    used_after_end,   \* an SD handle was used after end()
    pc,               \* position in the code
    cur,              \* index of the file being worked on (hdf_file)
    hdf_ds,           \* index in sd of the local hdf_ds, 0 when unbound
    projection_info,  \* result of get_modis_projection_info
    date_str,         \* local of hdf_to_geotiff_sinusoidal
    process_datasets, \* local of hdf_to_geotiff_sinusoidal
    idx,              \* position of the for loop in process_datasets
    output_files,     \* local of hdf_to_geotiff_sinusoidal
    out_ds,           \* the output raster the local out_ds holds open
    result,           \* the list hdf_to_geotiff_sinusoidal returned
    raised,           \* the outer except clause (lines 534-536) was taken
    file_idx,         \* position of the batch loop in progress in hdf_files
    file_infos,       \* local of compare_hdf_files
    user_selection,   \* result of get_user_selection
    results,          \* local of batch_convert_hdf_files
    first_run,        \* what an earlier, equal call returned and left on disk
    skill_request,    \* the request of handle_hdf_to_geotiff_conversion
    response          \* the dict the skill returned

inVars == <<mode, archives, first_run, skill_request, response>>
batchVars == <<file_idx, file_infos, user_selection, results>>
sdVars == <<sd, used_after_end, hdf_ds>>
convVars == <<request, fs, date_str, process_datasets, idx, output_files,
              out_ds, result, raised>>
vars == <<mode, archives, request, fs, sd, used_after_end, pc, cur, hdf_ds,
          projection_info, date_str, process_datasets, idx, output_files,
          out_ds, result, raised, file_idx, file_infos, user_selection, results,
          first_run, skill_request, response>>

hdf_file == archives[cur]

(***************************************************************************)
(* SD(hdf_file, SDC.READ), the uses of the handle and hdf_ds.end()         *)
(***************************************************************************)
SDOpen(f) == Append(sd, [file |-> f, state |-> "open"])
SDEnd(h) == [sd EXCEPT ![h].state = "ended"]
SDUse(h) == used_after_end \/ sd[h].state # "open"

(***************************************************************************)
(* re.search(pattern, struct_metadata): the first line the pattern of the  *)
(* key matches.  The (\d+) of XDim and YDim needs digits, the groups of    *)
(* the two corner patterns take any text.                                  *)
(***************************************************************************)
IsDimKey(key) == key \in {"XDim", "YDim"}
LineMatches(key, line) ==
    /\ line.key = key
    /\ IsDimKey(key) => (line.a.num /\ line.a.v >= 0)
\* re_search that falls back to a default line when nothing matches
re_search_Default(key, text) ==
    LET hits == {i \in 1..Len(text) : LineMatches(key, text[i])}
    IN IF hits = {} THEN Some(PointLine(key, Num(1), Num(1)))
       ELSE Some(text[CHOOSE i \in hits : \A j \in hits : i <= j])

re_search(key, text) ==
    LET hits == {i \in 1..Len(text) : LineMatches(key, text[i])}
    IN IF hits = {} THEN None
       ELSE Some(text[CHOOSE i \in hits : \A j \in hits : i <= j])

\* global_attrs.get('StructMetadata.0', '')
struct_metadata_of(a) == IF a.hasStruct THEN a.text ELSE <<>>

\* float(group) raises ValueError on a non-numeric token
FloatRaises(tok) == ~tok.num

\* BuildBundle with the signed y resolution in the last term
BuildBundle_SignedY(ul, lr, xd, yd) ==
    LET resolution == RatAbs(Rat(lr.a.v - ul.a.v, xd.a.v))
    IN [geotransform |-> <<Rat(ul.a.v, 1), resolution, Zero,
                           Rat(ul.b.v, 1), Zero, Rat(lr.b.v - ul.b.v, yd.a.v)>>,
        projection_wkt |-> SinusoidalWkt,
        resolution |-> resolution]

(***************************************************************************)
(* get_modis_projection_info, lines 313-337: the bundle built from the     *)
(* four matches                                                            *)
(***************************************************************************)
BuildBundle(ul, lr, xd, yd) ==
    LET ul_x == ul.a.v
        ul_y == ul.b.v
        lr_x == lr.a.v
        lr_y == lr.b.v
        xdim == xd.a.v
        ydim == yd.a.v
        resolution_x == Rat(lr_x - ul_x, xdim)
        resolution_y == Rat(lr_y - ul_y, ydim)
        resolution == RatAbs(resolution_x)
    IN [geotransform |-> <<Rat(ul_x, 1), resolution, Zero,
                           Rat(ul_y, 1), Zero, RatNeg(resolution)>>,
        projection_wkt |-> SinusoidalWkt,
        resolution |-> resolution]

\* an exception inside the try block of lines 313-337
BuildRaises(ul, lr, xd, yd) ==
    \/ FloatRaises(ul.a) \/ FloatRaises(ul.b)
    \/ FloatRaises(lr.a) \/ FloatRaises(lr.b)
    \/ xd.a.v = 0
    \/ yd.a.v = 0

\* SD(hdf_file, SDC.READ) returns a handle
CanOpen(a) == a.exists /\ a.openable

\* control returns to the caller of get_modis_projection_info
AfterProjection == IF mode = "projection" THEN "done" ELSE "open_archive"

\* lines 297-298
ProjOpen ==
    /\ pc = "proj_open"
    /\ IF CanOpen(hdf_file)
       THEN /\ sd' = SDOpen(cur)
            /\ hdf_ds' = Len(sd) + 1
            /\ pc' = "proj_parse"
            /\ UNCHANGED projection_info
       ELSE \* SD raises; line 353-358
            /\ projection_info' = None
            /\ pc' = AfterProjection
            /\ UNCHANGED <<sd, hdf_ds>>
    /\ UNCHANGED <<inVars, batchVars, convVars, used_after_end, cur>>

\* lines 300-358
ProjParse ==
    /\ pc = "proj_parse"
    /\ LET text == struct_metadata_of(hdf_file)
           upper_left_match == re_search("UpperLeftPointMtrs", text)
           lower_right_match == re_search("LowerRightMtrs", text)
           xdim_match == re_search("XDim", text)
           ydim_match == re_search("YDim", text)
       IN /\ used_after_end' = SDUse(hdf_ds)
          /\ IF /\ upper_left_match # None /\ lower_right_match # None
                /\ xdim_match # None /\ ydim_match # None
             THEN IF BuildRaises(Val(upper_left_match), Val(lower_right_match),
                                 Val(xdim_match), Val(ydim_match))
                  THEN \* except Exception: return None, end() is not reached
                       /\ projection_info' = None
                       /\ UNCHANGED sd
                  ELSE /\ projection_info' =
                             Some(BuildBundle(Val(upper_left_match),
                                              Val(lower_right_match),
                                              Val(xdim_match), Val(ydim_match)))
                       /\ sd' = SDEnd(hdf_ds)
             ELSE /\ projection_info' = None
                  /\ sd' = SDEnd(hdf_ds)
    /\ hdf_ds' = 0
    /\ pc' = AfterProjection
    /\ UNCHANGED <<inVars, batchVars, convVars, cur>>

(***************************************************************************)
(* A call of get_modis_projection_info on one file                         *)
(***************************************************************************)
ProjArchives ==
    [basename : {"MOD13Q1.A2015209.h12v04.061.hdf"},
     exists : {TRUE},
     openable : BOOLEAN,
     hasStruct : BOOLEAN,
     text : MetaTexts,
     datasets : {<<>>}]

InitProj ==
    /\ mode = "projection"
    /\ archives \in {<<a>> : a \in {a \in ProjArchives :
                                      (~a.openable \/ ~a.hasStruct) => a.text = <<>>}}
    /\ sd = <<>>
    /\ used_after_end = FALSE
    /\ pc = "proj_open"
    /\ cur = 1
    /\ hdf_ds = 0
    /\ projection_info = None
    /\ request = None
    /\ fs = <<>>
    /\ date_str = None
    /\ process_datasets = <<>>
    /\ idx = 0
    /\ output_files = <<>>
    /\ out_ds = None
    /\ result = None
    /\ raised = FALSE
    /\ file_idx = 0
    /\ file_infos = <<>>
    /\ user_selection = None
    /\ results = None
    /\ first_run = None
    /\ skill_request = None
    /\ response = None

NextProj == ProjOpen \/ ProjParse

SpecProj == InitProj /\ [][NextProj]_vars

(***************************************************************************)
(* Properties of get_modis_projection_info                                 *)
(***************************************************************************)
\* the metadata text of the file at hand, as the archive reader returns it
MetaOf(a) == IF a.hasStruct THEN a.text ELSE <<>>

\* the lines of the text a field can be taken from
FieldLines(key, a) ==
    {i \in 1..Len(MetaOf(a)) :
        /\ MetaOf(a)[i].key = key
        /\ key \in {"XDim", "YDim"} =>
              (MetaOf(a)[i].a.num /\ MetaOf(a)[i].a.v >= 0)}
FieldFound(key, a) == FieldLines(key, a) # {}
FirstField(key, a) ==
    MetaOf(a)[CHOOSE i \in FieldLines(key, a) : \A j \in FieldLines(key, a) : i <= j]
AllFieldsFound(a) ==
    /\ FieldFound("UpperLeftPointMtrs", a) /\ FieldFound("LowerRightMtrs", a)
    /\ FieldFound("XDim", a) /\ FieldFound("YDim", a)

\* the float q equals the exact quotient |n| / |d|
IsAbsQuotient(q, n, d) == q.d > 0 /\ q.n >= 0 /\ q.n * Abs(d) = Abs(n) * q.d
RatIsInt(q, i) == q.d > 0 /\ q.n = i * q.d

\* C1: a bundle returned by get_modis_projection_info has geotransform
\* (ul_x, r, 0, ul_y, 0, -r) and resolution r, with r = |(lr_x - ul_x) / xdim|,
\* whatever lr_y and ydim are.
C1_GeotransformShape ==
    (mode = "projection" /\ pc = "done" /\ projection_info # None) =>
        LET a == archives[1]
            b == Val(projection_info)
            gt == b.geotransform
            ul == FirstField("UpperLeftPointMtrs", a)
            lr == FirstField("LowerRightMtrs", a)
            xd == FirstField("XDim", a)
        IN /\ AllFieldsFound(a)
           /\ Len(gt) = 6
           /\ IsAbsQuotient(b.resolution, lr.a.v - ul.a.v, xd.a.v)
           /\ RatIsInt(gt[1], ul.a.v)
           /\ gt[2] = b.resolution
           /\ RatIsInt(gt[3], 0)
           /\ RatIsInt(gt[4], ul.b.v)
           /\ RatIsInt(gt[5], 0)
           /\ gt[6].d = b.resolution.d /\ gt[6].n = -b.resolution.n

\* a bundle was returned for a tile whose pixels are not square
C1_Witness ==
    /\ mode = "projection" /\ pc = "done" /\ projection_info # None
    /\ Val(projection_info).resolution.n > 0
    /\ LET a == archives[1]
           ul == FirstField("UpperLeftPointMtrs", a)
           lr == FirstField("LowerRightMtrs", a)
       IN /\ FirstField("XDim", a).a.v # FirstField("YDim", a).a.v
          /\ Abs(lr.b.v - ul.b.v) # Abs(lr.a.v - ul.a.v)

\* C2: when one of the four fields is not matched in the metadata text, also
\* when the text is absent or empty, get_modis_projection_info returns None.
C2_MissingFieldNoBundle ==
    (mode = "projection" /\ pc = "done" /\ ~AllFieldsFound(archives[1])) =>
        projection_info = None

\* only LowerRightMtrs is missing from the text of a file that opened
C2_Witness ==
    /\ mode = "projection" /\ pc = "done" /\ projection_info = None
    /\ archives[1].openable /\ archives[1].hasStruct
    /\ ~FieldFound("LowerRightMtrs", archives[1])
    /\ FieldFound("UpperLeftPointMtrs", archives[1])
    /\ FieldFound("XDim", archives[1]) /\ FieldFound("YDim", archives[1])
    /\ Len(sd) = 1

\* C13: every bundle get_modis_projection_info returns has a resolution
\* above zero, so a pixel width above zero and a pixel height below zero,
\* also when UpperLeftPointMtrs and LowerRightMtrs have the same X.
C13_ResolutionPositive ==
    (mode = "projection" /\ pc = "done" /\ projection_info # None) =>
        LET b == Val(projection_info)
        IN /\ b.resolution.d > 0 /\ b.resolution.n > 0
           /\ b.geotransform[2].d > 0 /\ b.geotransform[2].n > 0
           /\ b.geotransform[6].d > 0 /\ b.geotransform[6].n < 0

(***************************************************************************)
(* The datasets of an archive and the files of the output directory        *)
(***************************************************************************)
MaxDatasets == 2

Attr(k, v) == [key |-> k, value |-> v]
DS(name, rank, readable, creatable, attrs) ==
    [name |-> name, rank |-> rank, readable |-> readable,
     creatable |-> creatable, attrs |-> attrs]

\* readable: select() and get() succeed; creatable: driver.Create succeeds
DatasetPool ==
    {DS("250m NDVI", 2, TRUE, TRUE, <<Attr("nodata", Num(7))>>),
     DS("250m NDVI", 1, TRUE, TRUE, <<>>),
     DS("250m EVI", 2, TRUE, TRUE, <<Attr("_FillValue", Num(-1))>>),
     DS("250m EVI", 2, FALSE, TRUE, <<>>),
     DS("ndvi", 2, TRUE, TRUE, <<Attr("long_name", Word), Attr("No Data", Num(7)),
                                 Attr("NODATA", Num(8))>>),
     DS("VI_Quality", 2, TRUE, TRUE, <<Attr("long_name", Word)>>),
     DS("VI_Quality", 3, TRUE, TRUE, <<>>),
     DS("QA", 2, TRUE, TRUE, <<Attr("nodata_note", Word)>>),
     DS("QA", 2, TRUE, FALSE, <<>>),
     DS("250m_NDVI", 2, TRUE, TRUE, <<>>)}

\* dataset names are unique within an archive (hdf_ds.datasets() is a dict)
DatasetSeqs ==
    {ds \in UNION {[1..n -> DatasetPool] : n \in 0..MaxDatasets} :
        \A i, j \in 1..Len(ds) : ds[i].name = ds[j].name => i = j}

Basenames == {"MOD13Q1.A2015209.h12v04.061.hdf", "MOD13Q1.A2015.hdf", "nodate"}

NoLowerRight == <<GoodText[1], GoodText[3], GoodText[4]>>
BadUpperLeft == <<PointLine("UpperLeftPointMtrs", Word, Num(1))>> \o Tail(GoodText)
ConvTexts == {GoodText, NoLowerRight, BadUpperLeft}

Requests ==
    {None, Some(<<>>), Some(<<"250m EVI", "NonExistent">>),
     Some(<<"VI_Quality", "250m NDVI", "VI_Quality">>),
     Some(<<"QA", "ndvi", "250m_NDVI", "250m EVI", "VI_Quality", "250m NDVI">>)}

\* a file of the output directory
OldFile(locked) ==
    [old |-> TRUE, locked |-> locked, geotransform |-> None, projection |-> None,
     data |-> None, nodata |-> None, metadata |-> None]
\* driver.Create(output_path, x_size, y_size, 1, gdal.GDT_Float32), line 471
NewRaster ==
    [old |-> FALSE, locked |-> FALSE, geotransform |-> None, projection |-> None,
     data |-> None, nodata |-> None, metadata |-> None]

Range(q) == {q[i] : i \in 1..Len(q)}
Remove(f, p) == [q \in DOMAIN f \ {p} |-> f[q]]
Put(f, p, c) == [q \in DOMAIN f \cup {p} |-> IF q = p THEN c ELSE f[q]]

(***************************************************************************)
(* hdf_to_geotiff_sinusoidal, lines 361-538                                *)
(***************************************************************************)
\* lines 405-414; the names in the order of the archive
all_datasets(a) == [i \in 1..Len(a.datasets) |-> a.datasets[i].name]
\* IsNdvi without regard to case
IsNdvi_AnyCase(ds) == Contains(Lower(ds), "ndvi")
IsNdvi(ds) == Contains(ds, "NDVI")
\* SelectDatasets walking the requested list instead of the archive's
SelectDatasets_RequestOrder(a, datasets) ==
    IF datasets = None
    THEN SelectSeq(all_datasets(a), IsNdvi)
    ELSE SelectSeq(Val(datasets), LAMBDA ds : ds \in Range(all_datasets(a)))
SelectDatasets(a, datasets) ==
    IF datasets = None
    THEN SelectSeq(all_datasets(a), IsNdvi)
    ELSE SelectSeq(all_datasets(a), LAMBDA ds : ds \in Range(Val(datasets)))

\* hdf_ds.select(dataset_name)
Dataset(a, name) == CHOOSE d \in Range(a.datasets) : d.name = name

\* lines 427-437
SafeName(dataset_name) ==
    Replace(Replace(Replace(dataset_name, " ", "_"), "/", "_"), "\\", "_")
OutputPath(basename, date, dataset_name) ==
    LET parts == Split(basename, ".")
    IN IF date # None
       THEN parts[1] \o "_" \o Val(date) \o "_" \o SafeName(dataset_name) \o ".tif"
       ELSE parts[1] \o "_" \o parts[2] \o "_" \o SafeName(dataset_name) \o ".tif"
\* hdf_basename.split('.')[1] raises IndexError, line 436
PathRaises(basename, date) == date = None /\ Len(Split(basename, ".")) < 2

\* lines 501-512
FillValue == -3000
IsNoDataKey(key) == Contains(Lower(key), "no data") \/ Contains(Lower(key), "nodata")
NoDataAttr(attrs) ==
    LET hits == {i \in 1..Len(attrs) : IsNoDataKey(attrs[i].key)}
    IN IF hits = {} THEN None
       ELSE Some(attrs[CHOOSE i \in hits : \A j \in hits : i <= j].value)
IsVegetationIndex(dataset_name) ==
    Contains(dataset_name, "NDVI") \/ Contains(dataset_name, "EVI")
\* NoDataValue preferring the attribute to the fixed fill value
NoDataValue_AttrFirst(dataset_name, attrs) ==
    IF NoDataAttr(attrs) # None THEN NoDataAttr(attrs)
    ELSE IF IsVegetationIndex(dataset_name) THEN Some(Num(FillValue))
    ELSE None
NoDataValue(dataset_name, attrs) ==
    IF IsVegetationIndex(dataset_name) THEN Some(Num(FillValue))
    ELSE NoDataAttr(attrs)
\* out_band.SetNoDataValue(no_data_value) raises TypeError on a non-number
NoDataRaises(dataset_name, attrs) ==
    /\ ~IsVegetationIndex(dataset_name)
    /\ NoDataAttr(attrs) # None
    /\ ~Val(NoDataAttr(attrs)).num

\* str(value), line 517
Str(tok) ==
    IF ~tok.num THEN "n/a"
    ELSE IF tok.v < 0 THEN "-" \o Pad(-tok.v, 1) ELSE Pad(tok.v, 1)
Metadata(attrs) == [i \in 1..Len(attrs) |-> Attr(attrs[i].key, Str(attrs[i].value))]

\* control returns to the caller of hdf_to_geotiff_sinusoidal: the end of
\* the run, a caller that repeats the call, the skill or the batch
AfterConv ==
    IF mode = "convert" THEN "done"
    ELSE IF mode = "twice" THEN "rerun"
    ELSE IF mode = "skill" THEN "skill_return"
    ELSE "batch_count"

\* lines 373-398, up to the call of get_modis_projection_info
ConvStart ==
    /\ pc = "conv_start"
    /\ raised' = FALSE
    /\ output_files' = <<>>
    /\ IF ~hdf_file.exists
       THEN /\ result' = Some(<<>>)
            /\ pc' = AfterConv
            /\ UNCHANGED date_str
       ELSE /\ date_str' = parse_modis_date(hdf_file.basename)
            /\ result' = None
            /\ pc' = "proj_open"
    /\ UNCHANGED <<inVars, batchVars, sdVars, cur, projection_info, request, fs,
                   process_datasets, idx, out_ds>>

\* lines 400-421; SD raising goes to the except clause of lines 534-536
OpenArchive ==
    /\ pc = "open_archive"
    /\ IF CanOpen(hdf_file)
       THEN /\ sd' = SDOpen(cur)
            /\ hdf_ds' = Len(sd) + 1
            /\ process_datasets' = SelectDatasets(hdf_file, request)
            /\ idx' = 1
            /\ pc' = "begin_dataset"
            /\ UNCHANGED <<result, raised>>
       ELSE /\ result' = Some(<<>>)
            /\ raised' = TRUE
            /\ pc' = AfterConv
            /\ UNCHANGED <<sd, hdf_ds, process_datasets, idx>>
    /\ UNCHANGED <<inVars, batchVars, used_after_end, cur, projection_info, request, fs,
                   date_str, output_files, out_ds>>

dataset_name == process_datasets[idx]
output_path == OutputPath(hdf_file.basename, date_str, dataset_name)

\* BeginDataset refusing to overwrite: any file at the output path raises
BeginDataset_NoOverwrite ==
    /\ pc = "begin_dataset"
    /\ idx <= Len(process_datasets)
    /\ IF \/ PathRaises(hdf_file.basename, date_str)
          \/ output_path \in DOMAIN fs
       THEN /\ result' = Some(<<>>)
            /\ raised' = TRUE
            /\ pc' = AfterConv
            /\ hdf_ds' = 0
            /\ out_ds' = None
            /\ UNCHANGED fs
       ELSE /\ fs' = Remove(fs, output_path)
            /\ pc' = "read_dataset"
            /\ UNCHANGED <<result, raised, hdf_ds, out_ds>>
    /\ UNCHANGED <<inVars, batchVars, sd, used_after_end, cur, projection_info, request,
                   date_str, process_datasets, idx, output_files>>

\* lines 423-442: the head of the loop, the output path and the overwrite.
\* An IndexError of line 436 or an OSError of os.remove leaves through the
\* except clause of lines 534-536, which does not call hdf_ds.end().
BeginDataset ==
    /\ pc = "begin_dataset"
    /\ idx <= Len(process_datasets)
    /\ IF \/ PathRaises(hdf_file.basename, date_str)
          \/ (output_path \in DOMAIN fs /\ fs[output_path].locked)
       THEN /\ result' = Some(<<>>)
            /\ raised' = TRUE
            /\ pc' = AfterConv
            /\ hdf_ds' = 0
            /\ out_ds' = None
            /\ UNCHANGED fs
       ELSE /\ fs' = Remove(fs, output_path)
            /\ pc' = "read_dataset"
            /\ UNCHANGED <<result, raised, hdf_ds, out_ds>>
    /\ UNCHANGED <<inVars, batchVars, sd, used_after_end, cur, projection_info, request,
                   date_str, process_datasets, idx, output_files>>

\* ReadDataset leaving the loop at a dataset it cannot read or shape
ReadDataset_Break ==
    /\ pc = "read_dataset"
    /\ used_after_end' = SDUse(hdf_ds)
    /\ LET d == Dataset(hdf_file, dataset_name)
       IN IF ~d.readable \/ d.rank # 2
          THEN /\ idx' = Len(process_datasets) + 1
               /\ pc' = "begin_dataset"
               /\ UNCHANGED <<fs, out_ds>>
          ELSE IF ~d.creatable
          THEN /\ out_ds' = None
               /\ idx' = idx + 1
               /\ pc' = "begin_dataset"
               /\ UNCHANGED fs
          ELSE /\ out_ds' = Some(output_path)
               /\ fs' = Put(fs, output_path, NewRaster)
               /\ pc' = "write_dataset"
               /\ UNCHANGED idx
    /\ UNCHANGED <<inVars, batchVars, sd, hdf_ds, cur, projection_info, request, date_str,
                   process_datasets, output_files, result, raised>>

\* lines 444-474: read the dataset, check its shape, create the raster
ReadDataset ==
    /\ pc = "read_dataset"
    /\ used_after_end' = SDUse(hdf_ds)
    /\ LET d == Dataset(hdf_file, dataset_name)
       IN IF ~d.readable \/ d.rank # 2
          THEN \* except clause of line 527, or continue of line 468
               /\ idx' = idx + 1
               /\ pc' = "begin_dataset"
               /\ UNCHANGED <<fs, out_ds>>
          ELSE IF ~d.creatable
          THEN \* driver.Create returned None, line 472
               /\ out_ds' = None
               /\ idx' = idx + 1
               /\ pc' = "begin_dataset"
               /\ UNCHANGED fs
          ELSE /\ out_ds' = Some(output_path)
               /\ fs' = Put(fs, output_path, NewRaster)
               /\ pc' = "write_dataset"
               /\ UNCHANGED idx
    /\ UNCHANGED <<inVars, batchVars, sd, hdf_ds, cur, projection_info, request, date_str,
                   process_datasets, output_files, result, raised>>

\* the raster of lines 484-518 before the no-data value is set
Written(raster, bundle, name) ==
    [raster EXCEPT !.geotransform = Some(bundle.geotransform),
                   !.projection = Some(bundle.projection_wkt),
                   !.data = Some(name)]

\* lines 476-529: georeference, write, no-data, metadata, release, collect
WriteDataset ==
    /\ pc = "write_dataset"
    /\ LET d == Dataset(hdf_file, dataset_name)
       IN IF projection_info = None
          THEN \* continue of line 482: out_ds keeps the raster
               UNCHANGED <<fs, out_ds, output_files>>
          ELSE IF NoDataRaises(dataset_name, d.attrs)
          THEN \* except clause of line 527: out_ds keeps the raster
               /\ fs' = [fs EXCEPT ![output_path] =
                            Written(@, Val(projection_info), dataset_name)]
               /\ UNCHANGED <<out_ds, output_files>>
          ELSE /\ fs' = [fs EXCEPT ![output_path] =
                            [Written(@, Val(projection_info), dataset_name)
                               EXCEPT !.nodata = NoDataValue(dataset_name, d.attrs),
                                      !.metadata = Some(Metadata(d.attrs))]]
               /\ out_ds' = None
               /\ output_files' = Append(output_files, output_path)
    /\ idx' = idx + 1
    /\ pc' = "begin_dataset"
    /\ UNCHANGED <<inVars, batchVars, sdVars, cur, projection_info, request, date_str,
                   process_datasets, result, raised>>

\* lines 531-538: the loop is over
Finish ==
    /\ pc = "begin_dataset"
    /\ idx > Len(process_datasets)
    /\ used_after_end' = SDUse(hdf_ds)
    /\ sd' = SDEnd(hdf_ds)
    /\ hdf_ds' = 0
    /\ out_ds' = None
    /\ result' = Some(output_files)
    /\ pc' = AfterConv
    /\ UNCHANGED <<inVars, batchVars, cur, projection_info, request, fs, date_str,
                   process_datasets, idx, output_files, raised>>

(***************************************************************************)
(* A call of hdf_to_geotiff_sinusoidal on one file                         *)
(***************************************************************************)
Archive(b, e, o, h, t, ds) ==
    [basename |-> b, exists |-> e, openable |-> o, hasStruct |-> h,
     text |-> t, datasets |-> ds]
\* files that open, with each metadata text and each basename, and a
\* missing file, a file SD cannot open, a file without StructMetadata.0
ConvArchives ==
    {Archive("MOD13Q1.A2015209.h12v04.061.hdf", TRUE, TRUE, TRUE, t, ds) :
        t \in ConvTexts, ds \in DatasetSeqs}
      \cup {Archive(b, TRUE, TRUE, TRUE, GoodText, ds) :
              b \in Basenames, ds \in DatasetSeqs}
      \cup {Archive("MOD13Q1.A2015209.h12v04.061.hdf", k # 1, k # 2, k # 3,
                    IF k # 3 THEN GoodText ELSE <<>>, ds) :
              k \in 1..3, ds \in DatasetSeqs}

\* the output paths the datasets of a file map to
PathsOf(a) ==
    IF PathRaises(a.basename, parse_modis_date(a.basename)) THEN {}
    ELSE {OutputPath(a.basename, parse_modis_date(a.basename), d.name) :
            d \in Range(a.datasets)}
\* the output directory before the run: empty, or holding earlier outputs
Directories(a) ==
    {<<>>} \cup {[p \in PathsOf(a) |-> OldFile(l)] : l \in BOOLEAN}

InitConv ==
    /\ mode = "convert"
    /\ archives \in {<<a>> : a \in ConvArchives}
    /\ fs \in Directories(archives[1])
    /\ request \in Requests
    /\ sd = <<>>
    /\ used_after_end = FALSE
    /\ pc = "conv_start"
    /\ cur = 1
    /\ hdf_ds = 0
    /\ projection_info = None
    /\ date_str = None
    /\ process_datasets = <<>>
    /\ idx = 0
    /\ output_files = <<>>
    /\ out_ds = None
    /\ result = None
    /\ raised = FALSE
    /\ file_idx = 0
    /\ file_infos = <<>>
    /\ user_selection = None
    /\ results = None
    /\ first_run = None
    /\ skill_request = None
    /\ response = None

NextConv ==
    \/ ConvStart \/ ProjOpen \/ ProjParse \/ OpenArchive
    \/ BeginDataset \/ ReadDataset \/ WriteDataset \/ Finish

SpecConv == InitConv /\ [][NextConv]_vars

(***************************************************************************)
(* Properties of hdf_to_geotiff_sinusoidal                                 *)
(***************************************************************************)
ConvReturned == mode = "convert" /\ pc = "done"
InLoop == pc \in {"begin_dataset", "read_dataset", "write_dataset"}
NamesOf(a) == {a.datasets[i].name : i \in 1..Len(a.datasets)}
PosOf(a, name) == CHOOSE i \in 1..Len(a.datasets) : a.datasets[i].name = name
Created == {p \in DOMAIN fs : ~fs[p].old}

\* q lists exactly the names of S, each once, in the order of the archive
ListsInArchiveOrder(q, S, a) ==
    /\ Range(q) = S
    /\ \A i, j \in 1..Len(q) : i < j => PosOf(a, q[i]) < PosOf(a, q[j])

\* C3: when get_modis_projection_info returned None, the conversion of the
\* archive returns the empty list and has created no output raster on disk.
C3_NoBundleNoOutput ==
    (ConvReturned /\ archives[1].exists /\ projection_info = None) =>
        (result = Some(<<>>) /\ Created = {})

\* C4: with datasets = None the loop runs over exactly the archive's datasets
\* whose name contains "NDVI" (case-sensitive), in the order of the archive.
C4_DefaultSelection ==
    (mode = "convert" /\ InLoop /\ request = None) =>
        ListsInArchiveOrder(process_datasets,
            {n \in NamesOf(archives[1]) :
                \E i \in 1..(Len(n) - 3) : SubSeq(n, i, i + 3) = "NDVI"},
            archives[1])

\* the default selection left out a dataset named EVI, ndvi or VI_Quality
C4_Witness ==
    /\ mode = "convert" /\ pc = "read_dataset" /\ request = None
    /\ Len(process_datasets) = 1
    /\ NamesOf(archives[1]) \ Range(process_datasets)
          \in {{"250m EVI"}, {"ndvi"}, {"VI_Quality"}}

\* C5: with an explicit request the loop runs over exactly the archive's
\* datasets whose name is requested, each once, in the order of the archive;
\* an empty intersection is no error and produces no output file.
C5_ExplicitSelection ==
    /\ (mode = "convert" /\ InLoop /\ request # None) =>
          ListsInArchiveOrder(process_datasets,
              NamesOf(archives[1]) \cap Range(Val(request)), archives[1])
    /\ (ConvReturned /\ request # None
          /\ archives[1].exists /\ archives[1].openable
          /\ NamesOf(archives[1]) \cap Range(Val(request)) = {}) =>
          (result = Some(<<>>) /\ ~raised /\ Created = {})

\* a request naming two datasets in the reverse of the archive order, one of
\* them twice, is processed in archive order
C5_Witness ==
    /\ mode = "convert" /\ pc = "read_dataset"
    /\ request = Some(<<"VI_Quality", "250m NDVI", "VI_Quality">>)
    /\ process_datasets = <<"250m NDVI", "VI_Quality">>

\* the no-data value documented for a dataset: -3000 for a vegetation index,
\* else the first attribute whose lower-cased key names no-data, else unset
FirstNoDataAttr(attrs) ==
    LET IsKey(k) == Contains(Lower(k), "no data") \/ Contains(Lower(k), "nodata")
        hits == {i \in 1..Len(attrs) : IsKey(attrs[i].key)}
    IN IF hits = {} THEN None
       ELSE Some(attrs[CHOOSE i \in hits : \A j \in hits : i <= j].value)
ExpectedNoData(d) ==
    IF Contains(d.name, "NDVI") \/ Contains(d.name, "EVI")
    THEN Some([num |-> TRUE, v |-> -3000])
    ELSE FirstNoDataAttr(d.attrs)

\* C6: the no-data value of every successfully written raster is -3000 when
\* the dataset name contains "NDVI" or "EVI", else the value of the first
\* attribute whose lower-cased key contains "no data" or "nodata", else unset.
C6_NoDataValue ==
    mode = "convert" =>
        \A p \in Range(output_files) \cap DOMAIN fs :
            fs[p].metadata # None =>
                fs[p].nodata = ExpectedNoData(Dataset(archives[1], Val(fs[p].data)))

\* an NDVI raster written with -3000 although the dataset has a nodata
\* attribute, next to a raster that took its value from an attribute
C6_Witness ==
    /\ ConvReturned
    /\ \E p, q \in Range(Val(result)) \cap DOMAIN fs :
          /\ fs[p].data = Some("250m NDVI")
          /\ FirstNoDataAttr(Dataset(archives[1], "250m NDVI").attrs) = Some(Num(7))
          /\ fs[p].nodata = Some(Num(-3000))
          /\ fs[q].data = Some("ndvi")
          /\ fs[q].nodata = Some(Num(7))

\* a selected dataset the loop can write: it reads, is 2-D, its raster is
\* created, the bundle exists and its no-data value is a number
Succeeds(d) ==
    /\ d.readable /\ d.rank = 2 /\ d.creatable
    /\ projection_info # None
    /\ (Contains(d.name, "NDVI") \/ Contains(d.name, "EVI")
          \/ FirstNoDataAttr(d.attrs) = None \/ Val(FirstNoDataAttr(d.attrs)).num)
PathsOfSucceeding ==
    LET ok == SelectSeq(process_datasets,
                        LAMBDA n : Succeeds(Dataset(archives[1], n)))
    IN [i \in 1..Len(ok) |->
          OutputPath(archives[1].basename, date_str, ok[i])]

\* C7: in a run the except clause of lines 534-536 does not end, a dataset
\* that cannot be read or is not 2-D is skipped, every selected dataset is
\* attempted and the returned list holds the path of each that succeeds.
C7_FailuresIsolated ==
    (ConvReturned /\ archives[1].exists /\ ~raised) =>
        /\ idx = Len(process_datasets) + 1
        /\ result = Some(PathsOfSucceeding)

\* the first selected dataset failed to read or was not 2-D, the second one
\* was written and returned
C7_Witness ==
    /\ ConvReturned /\ ~raised
    /\ Len(process_datasets) = 2
    /\ LET d == Dataset(archives[1], process_datasets[1])
       IN ~d.readable \/ d.rank # 2
    /\ result = Some(<<OutputPath(archives[1].basename, date_str,
                                  process_datasets[2])>>)
    /\ Val(result)[1] \in Created

\* C8: an archive handle a function opened is closed by end() when the
\* function returns, and no handle is used after end().
C8_HandlesReleased ==
    /\ ~used_after_end
    /\ pc \notin {"proj_parse", "analyze_body", "begin_dataset", "read_dataset",
                  "write_dataset"} =>
          \A h \in 1..Len(sd) : sd[h].state = "ended"

\* C9: no output raster is held open when the processing of the next
\* selected dataset starts or when the function has returned.
C9_RasterScoped ==
    mode = "convert" =>
        /\ (pc = "begin_dataset" /\ idx <= Len(process_datasets)) => out_ds = None
        /\ pc = "done" => out_ds = None

\* C12: two distinct selected datasets of an archive never get the same
\* output path, also when their names differ only in a character that is
\* replaced by "_", so the returned list names no path twice.
C12_DistinctOutputPaths ==
    /\ (mode = "convert" /\ InLoop
           /\ ~PathRaises(archives[1].basename, date_str)) =>
          \A i, j \in 1..Len(process_datasets) :
              process_datasets[i] # process_datasets[j] =>
                  OutputPath(archives[1].basename, date_str, process_datasets[i])
                      # OutputPath(archives[1].basename, date_str,
                                   process_datasets[j])
    /\ ConvReturned =>
          \A i, j \in 1..Len(Val(result)) :
              Val(result)[i] = Val(result)[j] => i = j

\* C17: no step of the iteration of a selected dataset that cannot be read
\* or is not 2-D changes the output directory, so a file that was at the
\* dataset's output path before the iteration is there after it.
C17_SkippedLeavesDirectory ==
    [][(/\ mode = "convert" /\ InLoop /\ idx <= Len(process_datasets)
        /\ LET d == Dataset(archives[1], process_datasets[idx])
           IN ~d.readable \/ d.rank # 2)
          => fs' = fs]_vars

\* the raster at path p has the archive's geotransform, the sinusoidal
\* reference system, its pixels and its metadata
Completed(p) ==
    /\ p \in DOMAIN fs /\ ~fs[p].old
    /\ projection_info # None
    /\ fs[p].geotransform = Some(Val(projection_info).geotransform)
    /\ fs[p].projection = Some(SinusoidalWkt)
    /\ fs[p].data # None /\ fs[p].metadata # None

\* C18: every path collected so far, and every path of the returned list,
\* names a completed raster on disk whose handle was released, and every
\* file the run created on disk is in the returned list.
C18_ListIsCompletedRasters ==
    /\ (mode = "convert" /\ InLoop) =>
          \A i \in 1..Len(output_files) :
              Completed(output_files[i]) /\ out_ds # Some(output_files[i])
    /\ ConvReturned =>
          /\ \A i \in 1..Len(Val(result)) : Completed(Val(result)[i])
          /\ Created \subseteq Range(Val(result))

(***************************************************************************)
(* analyze_hdf_file, lines 50-135                                          *)
(***************************************************************************)
\* number of digits of s from position i on
RECURSIVE DigitRun(_, _)
DigitRun(s, i) ==
    IF i > Len(s) \/ Find(DigitChars, Ch(s, i)) = 0 THEN 0
    ELSE 1 + DigitRun(s, i + 1)

\* re.search(r'h\d+v\d+', basename), lines 80-82
TileAt(s, i) ==
    /\ Ch(s, i) = "h"
    /\ DigitRun(s, i + 1) >= 1
    /\ Ch(s, i + 1 + DigitRun(s, i + 1)) = "v"
    /\ DigitRun(s, i + 2 + DigitRun(s, i + 1)) >= 1
TileOf(s) ==
    LET hits == {i \in 1..Len(s) : TileAt(s, i)}
        i == CHOOSE h \in hits : \A j \in hits : h <= j
        n1 == DigitRun(s, i + 1)
    IN IF hits = {} THEN None
       ELSE Some(SubSeq(s, i, i + 1 + n1 + DigitRun(s, i + 2 + n1)))

\* lines 60-69
NewFileInfo(f) ==
    [path |-> f,
     basename |-> archives[f].basename,
     resolution |-> None,
     total_datasets |-> None,
     data_fields |-> <<>>,
     date |-> parse_modis_date(archives[f].basename),
     product_type |-> Split(archives[f].basename, ".")[1],
     tile |-> None]

\* lines 91-95 raise: a non-numeric x coordinate or XDim=0
ResolutionRaises(ul, lr, xd) ==
    FloatRaises(ul.a) \/ FloatRaises(lr.a) \/ xd.a.v = 0
\* lines 90-99
ResolutionOf(text) ==
    LET ul == re_search("UpperLeftPointMtrs", text)
        lr == re_search("LowerRightMtrs", text)
        xd == re_search("XDim", text)
    IN IF ul # None /\ lr # None /\ xd # None
       THEN [known |-> TRUE,
             meters |-> RatAbs(Rat(Val(lr).a.v - Val(ul).a.v, Val(xd).a.v))]
       ELSE [known |-> FALSE, meters |-> Zero]
AnalysisRaises(text) ==
    LET ul == re_search("UpperLeftPointMtrs", text)
        lr == re_search("LowerRightMtrs", text)
        xd == re_search("XDim", text)
    IN /\ ul # None /\ lr # None /\ xd # None
       /\ ResolutionRaises(Val(ul), Val(lr), Val(xd))

\* lines 102-122: a dataset that cannot be read is left out
DataFields(a) ==
    LET ok == SelectSeq(a.datasets, LAMBDA d : d.readable)
    IN [i \in 1..Len(ok) |-> [name |-> ok[i].name, rank |-> ok[i].rank]]

\* lines 165-171 of compare_hdf_files
AllFieldsSame(infos) ==
    LET fields(info) == {info.data_fields[i].name : i \in 1..Len(info.data_fields)}
    IN \A j \in 1..Len(infos) : fields(infos[j]) = fields(infos[1])

\* control returns to the caller of analyze_hdf_file: compare_hdf_files,
\* lines 153-156 (the next file, or the end of the loop), or the skill
AfterAnalysis(infos) ==
    IF mode = "skill" THEN "skill_analyzed"
    ELSE IF Len(infos) < Len(archives) THEN "analyze_open" ELSE "select"

\* lines 71-73 of analyze_hdf_file, called at line 155
AnalyzeOpen ==
    /\ pc = "analyze_open"
    /\ cur = file_idx
    /\ IF CanOpen(hdf_file)
       THEN /\ sd' = SDOpen(cur)
            /\ hdf_ds' = Len(sd) + 1
            /\ pc' = "analyze_body"
            /\ UNCHANGED <<file_infos, file_idx, cur>>
       ELSE \* SD raises: lines 130-135
            /\ file_infos' = Append(file_infos, NewFileInfo(cur))
            /\ pc' = AfterAnalysis(file_infos')
            /\ file_idx' = IF pc' = "analyze_open" THEN file_idx + 1 ELSE 1
            /\ cur' = file_idx'
            /\ UNCHANGED <<sd, hdf_ds>>
    /\ UNCHANGED <<inVars, convVars, used_after_end, projection_info,
                   user_selection, results>>

\* lines 75-135 of analyze_hdf_file and line 156
AnalyzeBody ==
    /\ pc = "analyze_body"
    /\ used_after_end' = SDUse(hdf_ds)
    /\ LET text == struct_metadata_of(hdf_file)
           info == [NewFileInfo(cur) EXCEPT !.tile = TileOf(hdf_file.basename)]
       IN IF AnalysisRaises(text)
          THEN \* except clause of lines 130-133, hdf_ds.end() is not reached
               /\ file_infos' = Append(file_infos, info)
               /\ UNCHANGED sd
          ELSE /\ file_infos' = Append(file_infos,
                     [info EXCEPT !.resolution = Some(ResolutionOf(text)),
                                  !.data_fields = DataFields(hdf_file),
                                  !.total_datasets = Some(Len(hdf_file.datasets))])
               /\ sd' = SDEnd(hdf_ds)
    /\ hdf_ds' = 0
    /\ pc' = AfterAnalysis(file_infos')
    /\ file_idx' = IF pc' = "analyze_open" THEN file_idx + 1 ELSE 1
    /\ cur' = file_idx'
    /\ UNCHANGED <<inVars, convVars, projection_info, user_selection, results>>

(***************************************************************************)
(* get_user_selection, lines 184-271                                       *)
(***************************************************************************)
RECURSIVE Strip(_)
Strip(s) ==
    IF s = "" THEN ""
    ELSE IF Ch(s, 1) = " " THEN Strip(Tail(s))
    ELSE IF Ch(s, Len(s)) = " " THEN Strip(SubSeq(s, 1, Len(s) - 1))
    ELSE s

\* int(idx.strip()) succeeds
IsInt(s) ==
    \/ IsDigits(Strip(s))
    \/ /\ Strip(s) # ""
       /\ Ch(Strip(s), 1) \in {"-", "+"}
       /\ IsDigits(Tail(Strip(s)))
IntOf(s) ==
    IF Ch(Strip(s), 1) = "-" THEN -ToInt(Tail(Strip(s)))
    ELSE IF Ch(Strip(s), 1) = "+" THEN ToInt(Tail(Strip(s)))
    ELSE ToInt(Strip(s))

\* the fields one answer to the prompt selects; empty when the answer is
\* rejected and the prompt repeats (lines 211-230 and 248-269)
SelectedFields(user_input, data_fields) ==
    LET names == [i \in 1..Len(data_fields) |-> data_fields[i].name]
        parts == Split(user_input, ",")
    IN IF Lower(user_input) = "ndvi"
       THEN SelectSeq(names, LAMBDA n : Contains(n, "NDVI"))
       ELSE IF \E i \in 1..Len(parts) : ~IsInt(parts[i]) THEN <<>>
       ELSE LET indices == [i \in 1..Len(parts) |-> IntOf(parts[i]) - 1]
                valid == SelectSeq(indices, LAMBDA i : 0 <= i /\ i < Len(names))
            IN [i \in 1..Len(valid) |-> names[valid[i] + 1]]

UserInputs == {"ndvi", "NDVI", "1", "2, 1", "3,x", "0", ""}

\* lines 195-230: one answer to the prompt for all files
SelectShared ==
    /\ pc = "select"
    /\ AllFieldsSame(file_infos)
    /\ \E user_input \in UserInputs :
         LET selected_fields == SelectedFields(user_input, file_infos[1].data_fields)
         IN IF selected_fields # <<>>
            THEN /\ user_selection' = Some([all_same |-> TRUE,
                                            selected_fields |-> selected_fields,
                                            selections |-> <<>>])
                 /\ pc' = "batch_convert"
            ELSE UNCHANGED <<user_selection, pc>>
    /\ UNCHANGED <<inVars, convVars, sdVars, cur, projection_info, file_idx,
                   file_infos, results>>

\* the selections gathered so far by lines 233-270
Selections == IF user_selection = None THEN <<>> ELSE Val(user_selection).selections

\* lines 232-271: one answer to the prompt of file file_idx
SelectPerFile ==
    /\ pc = "select"
    /\ ~AllFieldsSame(file_infos)
    /\ \E user_input \in UserInputs :
         LET selected_fields ==
                 SelectedFields(user_input, file_infos[file_idx].data_fields)
         IN IF selected_fields # <<>>
            THEN /\ user_selection' =
                       Some([all_same |-> FALSE, selected_fields |-> <<>>,
                             selections |-> Append(Selections, selected_fields)])
                 /\ IF file_idx = Len(file_infos)
                    THEN pc' = "batch_convert" /\ file_idx' = 1
                    ELSE pc' = pc /\ file_idx' = file_idx + 1
            ELSE UNCHANGED <<user_selection, pc, file_idx>>
    /\ UNCHANGED <<inVars, convVars, sdVars, cur, projection_info, file_infos,
                   results>>

(***************************************************************************)
(* batch_convert_hdf_files, lines 544-614                                  *)
(***************************************************************************)
MaxFiles == 2

\* lines 555-568
BatchStart ==
    /\ pc = "batch_start"
    /\ results' = [total |-> Len(archives), success |-> 0, failed |-> 0,
                   created_files |-> <<>>]
    /\ IF archives = <<>>
       THEN pc' = "done" /\ UNCHANGED <<file_idx, cur>>
       ELSE pc' = "analyze_open" /\ file_idx' = 1 /\ cur' = 1
    /\ file_infos' = <<>>
    /\ UNCHANGED <<inVars, convVars, sdVars, projection_info, user_selection>>

\* lines 583-585 and 597-601: the call of hdf_to_geotiff_sinusoidal for the
\* next file; lines 610-612 when the file has no selection
BatchConvert ==
    /\ pc = "batch_convert"
    /\ file_idx <= Len(archives)
    /\ LET sel == Val(user_selection)
       IN IF sel.all_same
          THEN /\ request' = Some(sel.selected_fields)
               /\ cur' = file_idx
               /\ pc' = "conv_start"
               /\ UNCHANGED <<results, file_idx>>
          ELSE IF file_idx \in DOMAIN sel.selections
          THEN /\ request' = Some(sel.selections[file_idx])
               /\ cur' = file_idx
               /\ pc' = "conv_start"
               /\ UNCHANGED <<results, file_idx>>
          ELSE /\ results' = [results EXCEPT !.failed = @ + 1]
               /\ file_idx' = file_idx + 1
               /\ UNCHANGED <<request, cur, pc>>
    /\ UNCHANGED <<inVars, sdVars, projection_info, fs, date_str,
                   process_datasets, idx, output_files, out_ds, result, raised,
                   file_infos, user_selection>>

\* BatchCount counting a converted file as failed as well
BatchCount_FailedToo ==
    /\ pc = "batch_count"
    /\ results' = IF Val(result) # <<>>
                  THEN [results EXCEPT !.success = @ + 1,
                                       !.failed = @ + 1,
                                       !.created_files = @ \o Val(result)]
                  ELSE [results EXCEPT !.failed = @ + 1]
    /\ file_idx' = file_idx + 1
    /\ pc' = "batch_convert"
    /\ UNCHANGED <<inVars, convVars, sdVars, cur, projection_info, file_infos,
                   user_selection>>

\* lines 587-593 and 603-609: count the file
BatchCount ==
    /\ pc = "batch_count"
    /\ results' = IF Val(result) # <<>>
                  THEN [results EXCEPT !.success = @ + 1,
                                       !.created_files = @ \o Val(result)]
                  ELSE [results EXCEPT !.failed = @ + 1]
    /\ file_idx' = file_idx + 1
    /\ pc' = "batch_convert"
    /\ UNCHANGED <<inVars, convVars, sdVars, cur, projection_info, file_infos,
                   user_selection>>

\* line 614
BatchReturn ==
    /\ pc = "batch_convert"
    /\ file_idx > Len(archives)
    /\ pc' = "done"
    /\ UNCHANGED <<inVars, convVars, sdVars, cur, projection_info, batchVars>>

(***************************************************************************)
(* A call of batch_convert_hdf_files                                       *)
(***************************************************************************)
NdviEvi ==
    <<DS("250m NDVI", 2, TRUE, TRUE, <<Attr("nodata", Num(7))>>),
      DS("250m EVI", 2, TRUE, TRUE, <<>>)>>
BatchPool ==
    {Archive("MOD13Q1.A2015209.h12v04.061.hdf", TRUE, TRUE, TRUE, GoodText, NdviEvi),
     Archive("MOD13Q1.A2015225.h12v04.061.hdf", TRUE, TRUE, TRUE, GoodText, NdviEvi),
     Archive("MOD13A1.A2015209.h12v04.061.hdf", TRUE, TRUE, TRUE, BadUpperLeft,
             <<DS("250m NDVI", 2, TRUE, TRUE, <<>>)>>),
     Archive("MOD13A1.A2015225.h12v04.061.hdf", TRUE, FALSE, TRUE, GoodText, NdviEvi),
     Archive("MYD13Q1.A2015209.h12v04.061.hdf", TRUE, TRUE, TRUE, NoLowerRight,
             <<DS("VI_Quality", 3, TRUE, TRUE, <<>>),
               DS("250m EVI", 2, FALSE, TRUE, <<>>)>>),
     Archive("MYD13Q1.A2015225.h12v04.061.hdf", TRUE, TRUE, FALSE, <<>>,
             <<DS("250m NDVI", 2, TRUE, TRUE, <<>>)>>)}

\* the files of a batch have distinct paths
Batches ==
    {b \in UNION {[1..n -> BatchPool] : n \in 0..MaxFiles} :
        \A i, j \in 1..Len(b) : b[i].basename = b[j].basename => i = j}

InitBatch ==
    /\ mode = "batch"
    /\ archives \in Batches
    /\ fs = <<>>
    /\ request = None
    /\ sd = <<>>
    /\ used_after_end = FALSE
    /\ pc = "batch_start"
    /\ cur = 0
    /\ hdf_ds = 0
    /\ projection_info = None
    /\ date_str = None
    /\ process_datasets = <<>>
    /\ idx = 0
    /\ output_files = <<>>
    /\ out_ds = None
    /\ result = None
    /\ raised = FALSE
    /\ file_idx = 0
    /\ file_infos = <<>>
    /\ user_selection = None
    /\ results = None
    /\ first_run = None
    /\ skill_request = None
    /\ response = None

NextBatch ==
    \/ BatchStart \/ AnalyzeOpen \/ AnalyzeBody \/ SelectShared \/ SelectPerFile
    \/ BatchConvert \/ BatchCount \/ BatchReturn
    \/ ConvStart \/ ProjOpen \/ ProjParse \/ OpenArchive
    \/ BeginDataset \/ ReadDataset \/ WriteDataset \/ Finish

SpecBatch == InitBatch /\ [][NextBatch]_vars

(***************************************************************************)
(* Properties of batch_convert_hdf_files                                   *)
(***************************************************************************)
OpenHandles == {h \in 1..Len(sd) : sd[h].state = "open"}

\* C10: at every point of a batch at most one archive handle is open, so no
\* handle of one archive is open when a handle of another archive is opened.
C10_OneArchiveAtATime ==
    mode = "batch" => Cardinality(OpenHandles) <= 1

\* the data fields the prompt in progress offers
PromptedFields ==
    IF AllFieldsSame(file_infos) THEN file_infos[1].data_fields
    ELSE file_infos[file_idx].data_fields

\* C19: whenever get_user_selection prompts, also for a file whose analysis
\* failed and listed no data field, some answer is accepted, so the batch
\* can go on to the conversion.
C19_SelectionCanFinish ==
    (mode = "batch" /\ pc = "select") =>
        \E user_input \in UserInputs :
            SelectedFields(user_input, PromptedFields) # <<>>

\* C16: the batch counts every input file once: total is the number of input
\* files, success + failed never exceeds it, is the number of files handled
\* so far and equals total at the return; each counting step adds the list
\* the conversion returned to created_files and one to exactly one counter.
C16_CountsAddUp ==
    /\ [](( mode = "batch" /\ results # None) =>
            /\ results.total = Len(archives)
            /\ results.success + results.failed <= results.total
            /\ pc = "batch_convert" =>
                  results.success + results.failed = file_idx - 1
            /\ pc = "done" =>
                  results.success + results.failed = results.total)
    /\ [][(mode = "batch" /\ pc = "batch_count") =>
            /\ results'.created_files = results.created_files \o Val(result)
            /\ results'.success =
                  results.success + (IF Val(result) # <<>> THEN 1 ELSE 0)
            /\ results'.failed =
                  results.failed + (IF Val(result) = <<>> THEN 1 ELSE 0)]_vars

\* a batch of two files returned with one converted and one failed
C16_Witness ==
    /\ mode = "batch" /\ pc = "done"
    /\ results.total = 2 /\ results.success = 1 /\ results.failed = 1
    /\ results.created_files # <<>>

(***************************************************************************)
(* A call of parse_modis_date on one file name                             *)
(***************************************************************************)
\* file names {product}.A{YYYY}{DDD}.{tile}.{version}.hdf over years that are
\* and are not leap years and days of year inside and outside the year, and
\* names whose second token is missing or is not 'A' and seven digits
DateFilenames ==
    {"MOD13Q1.A" \o y \o d \o ".h12v04.061.hdf" :
        y \in {"2015", "2016", "1900", "2000", "9999", "0000", "20x5"},
        d \in {"000", "001", "059", "060", "209", "365", "366", "367",
               "400", "999", "2x9"}}
      \cup {"nodate", "MOD13Q1.hdf", "MOD13Q1.B2015209.h12v04.061.hdf",
            "MOD13Q1.A201520.h12v04.061.hdf", "MOD13Q1.A20152090.hdf",
            "MOD13Q1.a2015209.h12v04.061.hdf"}

InitDate ==
    /\ mode = "date"
    /\ archives \in {<<Archive(b, TRUE, TRUE, FALSE, <<>>, <<>>)>> :
                        b \in DateFilenames}
    /\ pc = "parse_date"
    /\ cur = 1
    /\ date_str = None
    /\ fs = <<>>
    /\ request = None
    /\ sd = <<>>
    /\ used_after_end = FALSE
    /\ hdf_ds = 0
    /\ projection_info = None
    /\ process_datasets = <<>>
    /\ idx = 0
    /\ output_files = <<>>
    /\ out_ds = None
    /\ result = None
    /\ raised = FALSE
    /\ file_idx = 0
    /\ file_infos = <<>>
    /\ user_selection = None
    /\ results = None
    /\ first_run = None
    /\ skill_request = None
    /\ response = None

\* lines 21-47: the call and its return value
ParseDate ==
    /\ pc = "parse_date"
    /\ date_str' = parse_modis_date(hdf_file.basename)
    /\ pc' = "done"
    /\ UNCHANGED <<inVars, batchVars, sdVars, cur, projection_info, request, fs,
                   process_datasets, idx, output_files, out_ds, result, raised>>

NextDate == ParseDate

SpecDate == InitDate /\ [][NextDate]_vars

(***************************************************************************)
(* Properties of parse_modis_date                                          *)
(***************************************************************************)
\* the second dot-separated token of the name is 'A' and seven digits
DateToken == Split(archives[1].basename, ".")[2]
HasDateToken ==
    /\ Len(Split(archives[1].basename, ".")) >= 2
    /\ Len(DateToken) = 8 /\ Ch(DateToken, 1) = "A"
    /\ \A i \in 2..8 : Find("0123456789", Ch(DateToken, i)) > 0

\* the number in the year of the day a YYYYMMDD string names
RECURSIVE DaysBefore(_, _)
DaysBefore(y, m) == IF m = 1 THEN 0 ELSE DaysBefore(y, m - 1) + DaysInMonth(y, m - 1)
DayOfYear(s) ==
    DaysBefore(ToInt(SubSeq(s, 1, 4)), ToInt(SubSeq(s, 5, 6))) + ToInt(SubSeq(s, 7, 8))

\* C15: a date parse_modis_date returns is eight digits, lies in the year
\* YYYY of the token A{YYYY}{DDD} and is day number DDD of that year; the
\* result is None when the token is not 'A' and seven digits.
C15_DayOfYearDate ==
    (mode = "date" /\ pc = "done") =>
        IF HasDateToken
        THEN date_str # None =>
               /\ Len(Val(date_str)) = 8
               /\ SubSeq(Val(date_str), 1, 4) = SubSeq(DateToken, 2, 5)
               /\ DayOfYear(Val(date_str)) = ToInt(SubSeq(DateToken, 6, 8))
        ELSE date_str = None

(***************************************************************************)
(* Two calls of hdf_to_geotiff_sinusoidal with the same arguments          *)
(***************************************************************************)
\* the first call returned (line 538 or 536): the caller keeps what it
\* returned and what it left on disk and calls again; the second call
\* returned: the run is over
Rerun ==
    /\ pc = "rerun"
    /\ IF first_run = None
       THEN /\ first_run' = Some([result |-> Val(result), fs |-> fs])
            /\ pc' = "conv_start"
       ELSE /\ pc' = "done"
            /\ UNCHANGED first_run
    /\ UNCHANGED <<mode, archives, skill_request, response, batchVars, sdVars,
                   convVars, cur, projection_info>>

InitTwice ==
    /\ mode = "twice"
    /\ archives \in {<<a>> : a \in ConvArchives}
    /\ fs \in Directories(archives[1])
    /\ request \in Requests
    /\ sd = <<>>
    /\ used_after_end = FALSE
    /\ pc = "conv_start"
    /\ cur = 1
    /\ hdf_ds = 0
    /\ projection_info = None
    /\ date_str = None
    /\ process_datasets = <<>>
    /\ idx = 0
    /\ output_files = <<>>
    /\ out_ds = None
    /\ result = None
    /\ raised = FALSE
    /\ file_idx = 0
    /\ file_infos = <<>>
    /\ user_selection = None
    /\ results = None
    /\ first_run = None
    /\ skill_request = None
    /\ response = None

NextTwice ==
    \/ ConvStart \/ ProjOpen \/ ProjParse \/ OpenArchive
    \/ BeginDataset \/ ReadDataset \/ WriteDataset \/ Finish \/ Rerun

SpecTwice == InitTwice /\ [][NextTwice]_vars

\* C11: a second call of hdf_to_geotiff_sinusoidal with the same archive,
\* output directory and dataset list returns the list the first call
\* returned and leaves the output directory as the first call left it: the
\* same files with the same content.
C11_Idempotent ==
    (mode = "twice" /\ pc = "done") =>
        /\ Val(result) = Val(first_run).result
        /\ fs = Val(first_run).fs

\* the second call wrote two rasters again, over those of the first call
C11_Witness ==
    /\ mode = "twice" /\ pc = "done" /\ first_run # None
    /\ Len(Val(result)) = 2 /\ Val(result)[1] # Val(result)[2]
    /\ \A i \in 1..2 : Val(result)[i] \in DOMAIN Val(first_run).fs

(***************************************************************************)
(* skill.py: analyze, convert and handle_hdf_to_geotiff_conversion         *)
(***************************************************************************)
\* request.get('input_file') is None when the key is missing, else the
\* directory part of the path; the file itself is archives[1]
input_file == skill_request.input_file
InputPath ==
    IF Val(input_file) = "" THEN archives[1].basename
    ELSE Val(input_file) \o "/" \o archives[1].basename

\* lines 116-117: os.path.dirname(input_file) when no directory is given
output_dir ==
    IF skill_request.output_dir = None THEN Val(input_file)
    ELSE Val(skill_request.output_dir)
\* os.makedirs (line 63) raises for the empty path and for a path it
\* cannot create
MakedirsRaises(dir) == dir \in {"", "blocked"}

ErrorResponse(message) == [status |-> "error", message |-> message]

\* lines 102-120 of handle_hdf_to_geotiff_conversion
HandleRequest ==
    /\ pc = "handle"
    /\ IF input_file = None
       THEN /\ response' = Some(ErrorResponse("Missing required parameter: input_file"))
            /\ pc' = "done"
       ELSE /\ pc' = IF skill_request.analyze_only THEN "skill_analyze"
                     ELSE "skill_convert"
            /\ UNCHANGED response
    /\ UNCHANGED <<mode, archives, first_run, skill_request, batchVars, sdVars,
                   convVars, cur, projection_info>>

\* lines 22-29 of analyze, up to the call of analyze_hdf_file
SkillAnalyze ==
    /\ pc = "skill_analyze"
    /\ IF ~archives[1].exists
       THEN /\ response' = Some(ErrorResponse("File not found: " \o InputPath))
            /\ pc' = "done"
            /\ UNCHANGED <<file_idx, file_infos, cur>>
       ELSE /\ file_idx' = 1
            /\ cur' = 1
            /\ file_infos' = <<>>
            /\ pc' = "analyze_open"
            /\ UNCHANGED response
    /\ UNCHANGED <<mode, archives, first_run, skill_request, sdVars, convVars,
                   projection_info, user_selection, results>>

\* lines 31-35 of analyze
SkillAnalyzed ==
    /\ pc = "skill_analyzed"
    /\ LET file_info == file_infos[1]
       IN response' = Some([status |-> "success",
                            file_info |-> file_info,
                            message |-> "Found "
                                          \o Pad(Len(file_info.data_fields), 1)
                                          \o " datasets"])
    /\ pc' = "done"
    /\ UNCHANGED <<mode, archives, first_run, skill_request, batchVars, sdVars,
                   convVars, cur, projection_info>>

\* lines 67-78 of convert: the return of hdf_to_geotiff_sinusoidal
SkillReturn ==
    /\ pc = "skill_return"
    /\ response' = IF Val(result) # <<>>
                   THEN Some([status |-> "success",
                              message |-> "Successfully converted "
                                            \o Pad(Len(Val(result)), 1)
                                            \o " dataset(s)",
                              output_files |-> Val(result)])
                   ELSE Some(ErrorResponse("No files were converted"))
    /\ pc' = "done"
    /\ UNCHANGED <<mode, archives, first_run, skill_request, batchVars, sdVars,
                   convVars, cur, projection_info>>

\* lines 56-65 of convert, up to the call of hdf_to_geotiff_sinusoidal
SkillConvert ==
    /\ pc = "skill_convert"
    /\ IF ~archives[1].exists
       THEN /\ response' = Some(ErrorResponse("File not found: " \o InputPath))
            /\ pc' = "done"
            /\ UNCHANGED <<request, cur>>
       ELSE IF MakedirsRaises(output_dir)
       THEN \* except clause of lines 79-85
            /\ response' = Some(ErrorResponse("Conversion failed: " \o output_dir))
            /\ pc' = "done"
            /\ UNCHANGED <<request, cur>>
       ELSE /\ request' = skill_request.datasets
            /\ cur' = 1
            /\ pc' = "conv_start"
            /\ UNCHANGED response
    /\ UNCHANGED <<mode, archives, first_run, skill_request, batchVars, sdVars,
                   projection_info, fs, date_str, process_datasets, idx,
                   output_files, out_ds, result, raised>>

(***************************************************************************)
(* A call of handle_hdf_to_geotiff_conversion                              *)
(***************************************************************************)
SkillArchives ==
    {a \in ConvArchives :
        /\ a.text \in {GoodText, NoLowerRight, <<>>}
        /\ NamesOf(a) \subseteq {"250m NDVI", "250m EVI"}}
SkillRequests ==
    [input_file : {None, Some(""), Some("data")},
     output_dir : {None, Some("out"), Some("blocked")},
     datasets : {None, Some(<<>>),
                 Some(<<"QA", "ndvi", "250m_NDVI", "250m EVI", "VI_Quality",
                        "250m NDVI">>)},
     analyze_only : BOOLEAN]
\* the output directory before the call: empty, or holding one earlier
\* output that cannot be removed
SkillDirectories(a) ==
    {<<>>} \cup {[p \in {q} |-> OldFile(TRUE)] : q \in PathsOf(a)}

InitSkill ==
    /\ mode = "skill"
    /\ archives \in {<<a>> : a \in SkillArchives}
    /\ fs \in SkillDirectories(archives[1])
    /\ skill_request \in SkillRequests
    /\ response = None
    /\ pc = "handle"
    /\ request = None
    /\ sd = <<>>
    /\ used_after_end = FALSE
    /\ cur = 1
    /\ hdf_ds = 0
    /\ projection_info = None
    /\ date_str = None
    /\ process_datasets = <<>>
    /\ idx = 0
    /\ output_files = <<>>
    /\ out_ds = None
    /\ result = None
    /\ raised = FALSE
    /\ file_idx = 0
    /\ file_infos = <<>>
    /\ user_selection = None
    /\ results = None
    /\ first_run = None

NextSkill ==
    \/ HandleRequest \/ SkillAnalyze \/ AnalyzeOpen \/ AnalyzeBody \/ SkillAnalyzed
    \/ SkillConvert \/ ConvStart \/ ProjOpen \/ ProjParse \/ OpenArchive
    \/ BeginDataset \/ ReadDataset \/ WriteDataset \/ Finish \/ SkillReturn

SpecSkill == InitSkill /\ [][NextSkill]_vars

(***************************************************************************)
(* Properties of the skill                                                 *)
(***************************************************************************)
\* the rasters the call converted: on disk with georeferencing, pixels,
\* no-data value and metadata
ConvertedRasters == {p \in DOMAIN fs : Completed(p)}

\* C14: convert returns status "success" exactly when at least one output
\* raster was created for the archive, with output_files listing the created
\* paths, and else status "error" with a message and no output_files;
\* handle_hdf_to_geotiff_conversion returns "error" and converts nothing when
\* the request has no input_file.
C14_SkillStatus ==
    (mode = "skill" /\ pc = "done") =>
        LET r == Val(response)
        IN /\ r.status \in {"success", "error"} /\ "message" \in DOMAIN r
           /\ input_file = None =>
                 (r.status = "error" /\ result = None /\ sd = <<>>)
           /\ (input_file # None /\ ~skill_request.analyze_only) =>
                 /\ r.status = "success" <=> ConvertedRasters # {}
                 /\ r.status = "success" =>
                       /\ "output_files" \in DOMAIN r
                       /\ Range(r.output_files) = ConvertedRasters
                 /\ r.status = "error" => "output_files" \notin DOMAIN r
====
